---- MODULE Spec2Model ----
(***************************************************************************)
(* Model of the merged-PR enumeration of github-pr-grabber (src/list.go):  *)
(* getMergedPRs walks [sinceDate, now) in calendar-month chunks, and       *)
(* fetchPRsRecursive resolves each chunk, bisecting it when a query comes  *)
(* back with the backend's result limit.                                   *)
(*                                                                         *)
(* Time is a count of ticks (the resolution of time.Time).  A calendar day *)
(* is DayLen ticks, time.Second is OneSecond ticks, months are LongMonth   *)
(* and ShortMonth days long in turn, and the backend limit of 1000 rows is *)
(* Cap: all scaled down so that every window of a run can be enumerated.   *)
(* All times are taken in one time zone (UTC).                             *)
(*                                                                         *)
(* A string is a sequence of characters; the characters are integers, the  *)
(* tab, the newline and the letter of a title being negative and a tick    *)
(* standing for the text that gh prints for it.                            *)
(***************************************************************************)
EXTENDS Integers, Sequences, FiniteSets, TLC

\* ---- scale of the model ------------------------------------------------
DayLen == 4
OneSecond == 1
Cap == 2
LongMonth == 2
ShortMonth == 1
HorizonDays == 4

\* ---- program constant ---------------------------------------------------
MaxDepth == 10

\* ---- bound on the input typed at a prompt -------------------------------
MaxPrompts == 2

\* ---- bounds on a response of gh that is parsed on its own ----------------
MaxRows == 3
MaxFields == 5

\* ---- bound on the URL of a record written to a CSV file -------------------
MaxUrlLen == 2

VARIABLES
  sinceDate,     \* argument of getMergedPRs (a midnight: time.Parse of a date)
  now,           \* time.Now() read by getMergedPRs
  data,          \* the repository's merged PRs matching the search term
  failing,       \* the date ranges for which the gh command fails
  newestFirst,   \* the order in which the backend lists matching PRs
  currentStart,  \* getMergedPRs: start of the next chunk
  currentEnd,    \* getMergedPRs: end of the chunk being resolved
  chunkCount,    \* getMergedPRs: number of chunks started
  allPRs,        \* the accumulated result (*allPRs)
  seenPRs,       \* keys of the seenPRs map
  stack,         \* pending calls of fetchPRsRecursive, innermost first
  pc,            \* "loop" while getMergedPRs iterates, "done" once it returned
  retErr,        \* the error returned by getMergedPRs
  log,           \* the queries sent to gh and the lines printed, in order
  run,           \* 1 for the first call of getMergedPRs, 2 for a repeated call
  firstIds,      \* the URLs returned by the first call
  args,          \* the flags of the command line, as flag.Parse leaves them
  resp,          \* a response of gh and what fetchPRsForDateRange makes of it
  disk           \* the CSV file and what ParsePRURLsFromCSV makes of it

vars == <<sinceDate, now, data, failing, newestFirst, currentStart, currentEnd,
          chunkCount, allPRs, seenPRs, stack, pc, retErr, log, run, firstIds,
          args, resp, disk>>

inputs == <<sinceDate, now, data, failing, newestFirst>>

\* the state of main and of a single fetch, which getMergedPRs leaves alone
outer == <<args, resp, disk>>

\* ---- calendar -----------------------------------------------------------
MaxTick == HorizonDays * DayLen - 1
Days == 0 .. (HorizonDays - 1)

\* the date ranges startStr..endStr a query can name
DateRanges == { r \in Days \X Days : r[1] <= r[2] }

\* length in days of the calendar month number m
MonthLen(m) == IF m % 2 = 0 THEN LongMonth ELSE ShortMonth

RECURSIVE MonthStart(_)
\* first day of month m
MonthStart(m) == IF m = 0 THEN 0 ELSE MonthStart(m - 1) + MonthLen(m - 1)

\* the month a day falls in
MonthOfDay(d) == CHOOSE m \in 0 .. d : MonthStart(m) <= d /\ d < MonthStart(m + 1)

\* t.Format("2006-01-02"): the calendar date of an instant, its time of day dropped
Format(t) == t \div DayLen

\* t.AddDate(0, 1, 0): same day number and time of day in the next month,
\* an overflowing day number normalised into the month after
AddMonth(t) == t + MonthLen(MonthOfDay(Format(t))) * DayLen

\* ---- backend ------------------------------------------------------------
\* time of day of the k-th PR merged on a day: the first at noon, the second
\* at midnight, the others in the ticks after midnight
Offset(k) == IF k = 1 THEN DayLen \div 2 ELSE IF k = 2 THEN 0
             ELSE IF k - 2 < DayLen \div 2 THEN k - 2 ELSE k - 1

\* merge ticks of n PRs merged on day d
DayPRs(d, n) == { d * DayLen + Offset(k) : k \in 1 .. n }

Slots == UNION { DayPRs(d, Cap + 1) : d \in Days }

\* the repositories of the model: no PR; one or two days with 1, Cap or Cap + 1
\* PRs each; Cap PRs on every day
Repos == {{}, UNION { DayPRs(d, Cap) : d \in Days }}
         \cup { DayPRs(d1, n1) \cup DayPRs(d2, n2) :
                   d1 \in Days, d2 \in Days,
                   n1 \in {1, Cap, Cap + 1}, n2 \in {1, Cap, Cap + 1} }

\* ---- strings ------------------------------------------------------------
Tab == -1
Newline == -2
TitleChar == -3
Comma == -4
Quote == -5
Return == -6
Blank == -7

\* the white space strings.TrimSpace removes
Space == {Tab, Newline, Return, Blank}

\* the positions of s, in order, whose character is in chars (member TRUE) or
\* is not in chars (member FALSE)
Positions(s, chars, member) ==
  SelectSeq([i \in 1 .. Len(s) |-> i], LAMBDA i : (s[i] \in chars) = member)

\* strings.TrimSpace: s from its first to its last character that is no white space
TrimSpace(s) ==
  LET keep == Positions(s, Space, FALSE)
  IN IF keep = <<>> THEN <<>> ELSE SubSeq(s, keep[1], keep[Len(keep)])

\* strings.Split(s, sep) for a one-character sep: the pieces between the
\* separators, a single piece (s itself, even when empty) when there is none
Split(s, sep) ==
  LET seps == Positions(s, {sep}, TRUE)
      n == Len(seps)
  IN [k \in 1 .. (n + 1) |->
        SubSeq(s, IF k = 1 THEN 1 ELSE seps[k - 1] + 1,
                  IF k = n + 1 THEN Len(s) ELSE seps[k] - 1)]

\* ---- records ------------------------------------------------------------
\* the PR merged at tick t; its URL is its identifier
MkPR(t) == [Number |-> <<t>>, Title |-> <<TitleChar>>, MergedAt |-> <<t>>, URL |-> <<t>>]

\* the tick that the URL of a PR of the repository stands for
Id(url) == url[1]

\* the line jq prints for a PR: [.number, .title, .mergedAt, .url] | @tsv
Row(t) == <<t, Tab, TitleChar, Tab, t, Tab, t>>

RECURSIVE JoinLines(_)
\* the standard output holding the given lines, each ended by a newline
JoinLines(rows) == IF rows = <<>> THEN <<>>
                   ELSE Head(rows) \o <<Newline>> \o JoinLines(Tail(rows))

RECURSIVE SortAsc(_)
SortAsc(S) == IF S = {} THEN <<>>
              ELSE LET m == CHOOSE x \in S : \A y \in S : x <= y
                   IN <<m>> \o SortAsc(S \ {m})

Reverse(s) == [i \in 1 .. Len(s) |-> s[Len(s) + 1 - i]]

\* merge ticks of the PRs the search "merged:startStr..endStr" matches
Matching(startStr, endStr) ==
  { t \in data : startStr <= Format(t) /\ Format(t) <= endStr }

\* gh pr list --search "merged:startStr..endStr" --limit 1000: whether the
\* command fails, and its standard output, the lines of the first Cap matching PRs
GhPrList(startStr, endStr) ==
  LET asc == SortAsc(Matching(startStr, endStr))
      all == IF newestFirst THEN Reverse(asc) ELSE asc
      n   == IF Len(all) < Cap THEN Len(all) ELSE Cap
  IN [fails |-> <<startStr, endStr>> \in failing,
      stdout |-> JoinLines([i \in 1 .. n |-> Row(all[i])])]

\* runGHCommand: the error of the command, or its output with the white space
\* at both ends removed
runGHCommand(cmd) ==
  IF cmd.fails THEN [err |-> TRUE, output |-> <<>>]
  ELSE [err |-> FALSE, output |-> TrimSpace(cmd.stdout)]

\* ParseLines that takes a line of more than 4 fields by its first 4
ParseLinesAtLeast4(lines) ==
  LET kept == SelectSeq(lines, LAMBDA line : line # <<>> /\ ~(Len(Split(line, Tab)) < 4))
  IN [i \in 1 .. Len(kept) |->
        LET fields == Split(kept[i], Tab)
        IN [Number |-> fields[1], Title |-> fields[2],
            MergedAt |-> fields[3], URL |-> fields[4]]]

\* the loop of fetchPRsForDateRange over the lines of the output: an empty line
\* and a line that has not 4 fields are skipped, the others appended in order
ParseLines(lines) ==
  LET kept == SelectSeq(lines, LAMBDA line : line # <<>> /\ ~(Len(Split(line, Tab)) # 4))
  IN [i \in 1 .. Len(kept) |->
        LET fields == Split(kept[i], Tab)
        IN [Number |-> fields[1], Title |-> fields[2],
            MergedAt |-> fields[3], URL |-> fields[4]]]

\* fetchPRsForDateRange from the call of runGHCommand on: the error passed on,
\* or the PRs parsed from the output and their number
Fetched(cmd) ==
  LET r == runGHCommand(cmd)
      prs == ParseLines(Split(r.output, Newline))
  IN IF r.err THEN [err |-> TRUE, prs |-> <<>>, count |-> 0]
     ELSE [err |-> FALSE, prs |-> prs, count |-> Len(prs)]

\* fetchPRsForDateRange: one query for the dates of startDate and endDate
fetchPRsForDateRange(startDate, endDate) ==
  Fetched(GhPrList(Format(startDate), Format(endDate)))

\* ---- dedup --------------------------------------------------------------
RECURSIVE AdmitNoDedup(_, _, _)
\* Admit without the seenPRs test
AdmitNoDedup(prs, all, seen) ==
  IF prs = <<>> THEN [all |-> all, seen |-> seen]
  ELSE AdmitNoDedup(Tail(prs), Append(all, Head(prs)), seen \cup {Head(prs).URL})

RECURSIVE AdmitNoMark(_, _, _)
\* Admit that appends a PR without marking its URL as seen
AdmitNoMark(prs, all, seen) ==
  IF prs = <<>> THEN [all |-> all, seen |-> seen]
  ELSE LET pr == Head(prs)
       IN IF pr.URL \notin seen
          THEN AdmitNoMark(Tail(prs), Append(all, pr), seen)
          ELSE AdmitNoMark(Tail(prs), all, seen)

RECURSIVE AdmitInverted(_, _, _)
\* Admit with the seenPRs test inverted
AdmitInverted(prs, all, seen) ==
  IF prs = <<>> THEN [all |-> all, seen |-> seen]
  ELSE LET pr == Head(prs)
       IN IF pr.URL \in seen
          THEN AdmitInverted(Tail(prs), Append(all, pr), seen \cup {pr.URL})
          ELSE AdmitInverted(Tail(prs), all, seen)

RECURSIVE Admit(_, _, _)
\* the loop of fetchPRsRecursive that appends the PRs not seen before
Admit(prs, all, seen) ==
  IF prs = <<>> THEN [all |-> all, seen |-> seen]
  ELSE LET pr == Head(prs)
       IN IF pr.URL \notin seen
          THEN Admit(Tail(prs), Append(all, pr), seen \cup {pr.URL})
          ELSE Admit(Tail(prs), all, seen)

\* ---- log entries --------------------------------------------------------
\* kind: "query" for a call of fetchPRsForDateRange (ok: no error, ids: the URLs
\* it returned), otherwise the line printed; start..end is the window concerned
Ev(kind, depth, s, e, ok, ids) ==
  [kind |-> kind, chunk |-> chunkCount, depth |-> depth,
   start |-> s, end |-> e, ok |-> ok, ids |-> ids]

\* the PRs of a list, each named by the tick of its URL
Urls(prs) == { Id(prs[i].URL) : i \in 1 .. Len(prs) }

\* ---- state machine ------------------------------------------------------
\* the flags at their defaults: a command line without arguments
NoArgs == [i |-> FALSE, mode |-> "", since |-> <<>>, repo |-> "", urls |-> ""]

\* no response fetched
NoResp == [rows |-> <<>>, cmd |-> [fails |-> FALSE, stdout |-> <<>>],
           result |-> [err |-> FALSE, prs |-> <<>>, count |-> 0]]

\* no file written
NoDisk == [file |-> <<>>, read |-> [err |-> FALSE, urls |-> <<>>]]

\* getMergedPRs called with sinceDate, before the first iteration of its loop
Init ==
  /\ sinceDate \in {0, DayLen}
  /\ now \in sinceDate .. MaxTick
  /\ data \in Repos
  /\ failing \in {{}} \cup { {r} : r \in DateRanges }
  /\ newestFirst \in BOOLEAN
  /\ currentStart = sinceDate
  /\ currentEnd = sinceDate
  /\ chunkCount = 0
  /\ allPRs = <<>>
  /\ seenPRs = {}
  /\ stack = <<>>
  /\ pc = "loop"
  /\ retErr = "nil"
  /\ log = <<>>
  /\ run = 1
  /\ firstIds = {}
  /\ args = NoArgs
  /\ resp = NoResp
  /\ disk = NoDisk

\* StartChunk without the truncation of the last chunk to now
StartChunkNoTruncate ==
  /\ pc = "loop" /\ stack = <<>>
  /\ currentStart < now
  /\ LET end == AddMonth(currentStart)
     IN /\ currentEnd' = end
        /\ chunkCount' = chunkCount + 1
        /\ stack' = <<[start |-> currentStart, end |-> end, depth |-> 0]>>
        /\ log' = Append(log, [Ev("chunk", 0, currentStart, end, TRUE, {})
                                 EXCEPT !.chunk = chunkCount + 1])
  /\ UNCHANGED <<outer, inputs, currentStart, allPRs, seenPRs, pc, retErr, run, firstIds>>

\* getMergedPRs, one iteration of the loop up to the call of fetchPRsRecursive
StartChunk ==
  /\ pc = "loop" /\ stack = <<>>
  /\ currentStart < now
  /\ LET next == AddMonth(currentStart)
         end  == IF next > now THEN now ELSE next
     IN /\ currentEnd' = end
        /\ chunkCount' = chunkCount + 1
        /\ stack' = <<[start |-> currentStart, end |-> end, depth |-> 0]>>
        /\ log' = Append(log, [Ev("chunk", 0, currentStart, end, TRUE, {})
                                 EXCEPT !.chunk = chunkCount + 1])
  /\ UNCHANGED <<outer, inputs, currentStart, allPRs, seenPRs, pc, retErr, run, firstIds>>

\* HitLimit that takes only a count above the limit for a hit
HitLimitStrict(count) == count > Cap

\* "count >= 1000": the fetch came back with the backend's limit
HitLimit(count) == count >= Cap

\* CanSplit with the one-day floor left out
CanSplitAlways(duration) == TRUE

\* "duration < 24*time.Hour" is the floor: a shorter window is not split
CanSplit(duration) == ~(duration < DayLen)

\* Returned without "currentStart = currentEnd"
ReturnedNoAdvance(rest) ==
  /\ stack' = rest
  /\ currentStart' = currentStart

\* the pending calls left after the innermost one returned nil; once none is
\* left the chunk is resolved and getMergedPRs moves to the next chunk
Returned(rest) ==
  /\ stack' = rest
  /\ currentStart' = IF rest = <<>> THEN currentEnd ELSE currentStart

\* Failed that gives up the remaining chunks
FailedAbort(events) ==
  /\ stack' = <<>>
  /\ currentStart' = now
  /\ log' = log \o events \o <<Ev("warnErr", 0, currentStart, currentEnd, FALSE, {})>>
  /\ UNCHANGED <<allPRs, seenPRs>>

\* Failed that throws away what the run had admitted
FailedDropsPartial(events) ==
  /\ stack' = <<>>
  /\ currentStart' = currentEnd
  /\ log' = log \o events \o <<Ev("warnErr", 0, currentStart, currentEnd, FALSE, {})>>
  /\ allPRs' = <<>>
  /\ seenPRs' = {}

\* Failed whose warning names the sub-window that failed, not the chunk
FailedNamesSubWindow(events) ==
  /\ stack' = <<>>
  /\ currentStart' = currentEnd
  /\ log' = log \o events \o
            <<Ev("warnErr", 0, Head(stack).start, Head(stack).end, FALSE, {})>>
  /\ UNCHANGED <<allPRs, seenPRs>>

\* Failed that gives up the failed call only and goes on with the calls pending
FailedContinues(events) ==
  /\ stack' = Tail(stack)
  /\ currentStart' = IF Tail(stack) = <<>> THEN currentEnd ELSE currentStart
  /\ log' = log \o events \o <<Ev("warnErr", 0, currentStart, currentEnd, FALSE, {})>>
  /\ UNCHANGED <<allPRs, seenPRs>>

\* the innermost call returned an error: every enclosing call returns it, and
\* getMergedPRs prints the warning for the chunk and moves to the next chunk
Failed(events) ==
  /\ stack' = <<>>
  /\ currentStart' = currentEnd
  /\ log' = log \o events \o <<Ev("warnErr", 0, currentStart, currentEnd, FALSE, {})>>
  /\ UNCHANGED <<allPRs, seenPRs>>

\* TooDeep without the limit
TooDeepNever(depth) == FALSE

\* "depth > 10": the guard against infinite recursion
TooDeep(depth) == depth > MaxDepth

\* Halves with the second half fetched first
HalvesSwapped(f) ==
  LET midpoint == f.start + ((f.end - f.start) \div 2)
  IN <<[start |-> midpoint + OneSecond, end |-> f.end, depth |-> f.depth + 1],
       [start |-> f.start, end |-> midpoint, depth |-> f.depth + 1]>>

\* Halves with the first half left out
HalvesSecondOnly(f) ==
  LET midpoint == f.start + ((f.end - f.start) \div 2)
  IN <<[start |-> midpoint + OneSecond, end |-> f.end, depth |-> f.depth + 1]>>

\* Halves with the second half starting two days after the midpoint
HalvesDateGap(f) ==
  LET duration == f.end - f.start
      midpoint == f.start + (duration \div 2)
  IN <<[start |-> f.start, end |-> midpoint, depth |-> f.depth + 1],
       [start |-> midpoint + 2 * DayLen, end |-> f.end, depth |-> f.depth + 1]>>

\* the two recursive calls for a window that is split, in the order they are
\* made: the first half up to the midpoint, the second from one second after it
Halves(f) ==
  LET duration == f.end - f.start
      midpoint == f.start + (duration \div 2)
  IN <<[start |-> f.start, end |-> midpoint, depth |-> f.depth + 1],
       [start |-> midpoint + OneSecond, end |-> f.end, depth |-> f.depth + 1]>>

\* one call of fetchPRsRecursive, up to its return or its first recursive call
Resolve ==
  /\ pc = "loop" /\ stack # <<>>
  /\ LET f == Head(stack)
         rest == Tail(stack)
         duration == f.end - f.start
     IN IF TooDeep(f.depth)
        THEN Failed(<<>>)
        ELSE \E r \in {fetchPRsForDateRange(f.start, f.end)} :
          \E q \in {Ev("query", f.depth, f.start, f.end, ~r.err, Urls(r.prs))} :
             IF r.err
             THEN Failed(<<q>>)
             ELSE IF HitLimit(r.count) /\ CanSplit(duration)
             THEN /\ Returned(Halves(f) \o rest)
                  /\ log' = log \o <<q, Ev("split", f.depth, f.start, f.end, TRUE, {})>>
                  /\ UNCHANGED <<allPRs, seenPRs>>
             ELSE LET a == Admit(r.prs, allPRs, seenPRs)
                  IN /\ allPRs' = a.all
                     /\ seenPRs' = a.seen
                     /\ Returned(rest)
                     /\ log' = log \o <<q>>
                          \o (IF HitLimit(r.count)
                              THEN <<Ev("warnFloor", f.depth, f.start, f.end, TRUE, {})>>
                              ELSE <<>>)
                          \o (IF f.depth = 0
                              THEN <<Ev("found", 0, f.start, f.end, TRUE, {})>>
                              ELSE <<>>)
  /\ UNCHANGED <<outer, inputs, currentEnd, chunkCount, pc, retErr, run, firstIds>>

\* Finish that returns without printing the total
FinishNoTotal ==
  /\ pc = "loop" /\ stack = <<>>
  /\ ~(currentStart < now)
  /\ pc' = "done"
  /\ retErr' = "nil"
  /\ UNCHANGED <<outer, inputs, currentStart, currentEnd, chunkCount, allPRs, seenPRs,
                 stack, run, firstIds, log>>

\* getMergedPRs leaves the loop, prints the total and returns allPRs, nil
Finish ==
  /\ pc = "loop" /\ stack = <<>>
  /\ ~(currentStart < now)
  /\ pc' = "done"
  /\ retErr' = "nil"
  /\ log' = Append(log, Ev("total", 0, sinceDate, now, TRUE, {}))
  /\ UNCHANGED <<outer, inputs, currentStart, currentEnd, chunkCount, allPRs, seenPRs,
                 stack, run, firstIds>>

\* Rerun that keeps the seenPRs map of the first call
RerunKeepSeen ==
  /\ pc = "done" /\ run = 1
  /\ run' = 2
  /\ firstIds' = Urls(allPRs)
  /\ currentStart' = sinceDate
  /\ currentEnd' = sinceDate
  /\ chunkCount' = 0
  /\ allPRs' = <<>>
  /\ pc' = "loop"
  /\ retErr' = "nil"
  /\ log' = <<>>
  /\ UNCHANGED <<outer, inputs, stack, seenPRs>>

\* a second call of getMergedPRs with the same arguments, backend and clock
Rerun ==
  /\ pc = "done" /\ run = 1
  /\ run' = 2
  /\ firstIds' = Urls(allPRs)
  /\ currentStart' = sinceDate
  /\ currentEnd' = sinceDate
  /\ chunkCount' = 0
  /\ allPRs' = <<>>
  /\ seenPRs' = {}
  /\ pc' = "loop"
  /\ retErr' = "nil"
  /\ log' = <<>>
  /\ UNCHANGED <<outer, inputs, stack>>

\* one call of getMergedPRs
Next == StartChunk \/ Resolve \/ Finish

Spec == Init /\ [][Next]_vars

\* getMergedPRs called, and called again once it returned
NextTwice == StartChunk \/ Resolve \/ Finish \/ Rerun

SpecTwice == Init /\ [][NextTwice]_vars

\* the depths at which the call of fetchPRsRecursive for the first chunk is
\* entered when the depth limit is exercised: a chunk of at most a month cannot
\* be bisected down to the limit from depth 0
EntryDepths == (MaxDepth - 1) .. (MaxDepth + 1)

\* getMergedPRs in its first iteration, fetchPRsRecursive called for the first
\* chunk with a depth argument near the limit
InitDeep ==
  /\ sinceDate \in {0, DayLen}
  /\ now \in (sinceDate + 1) .. MaxTick
  /\ data \in Repos
  /\ failing \in {{}} \cup { {r} : r \in { q \in DateRanges : q[2] - q[1] <= 1 } }
  /\ newestFirst \in BOOLEAN
  /\ currentStart = sinceDate
  /\ currentEnd = (IF AddMonth(sinceDate) > now THEN now ELSE AddMonth(sinceDate))
  /\ chunkCount = 1
  /\ allPRs = <<>>
  /\ seenPRs = {}
  /\ \E d \in EntryDepths :
       stack = <<[start |-> currentStart, end |-> currentEnd, depth |-> d]>>
  /\ pc = "loop"
  /\ retErr = "nil"
  /\ log = <<Ev("chunk", 0, currentStart, currentEnd, TRUE, {})>>
  /\ run = 1
  /\ firstIds = {}
  /\ args = NoArgs
  /\ resp = NoResp
  /\ disk = NoDisk

SpecDeep == InitDeep /\ [][Next]_vars

\* ---- main ---------------------------------------------------------------
\* time.Parse("2006-01-02", s): the midnight of the date s writes, or an error
ParseDate(s) == IF Len(s) = 1 /\ s[1] >= 0
                THEN [err |-> FALSE, t |-> s[1] * DayLen]
                ELSE [err |-> TRUE, t |-> 0]

\* the texts given for a date: none, one that is no date, the dates of the calendar
DateStrs == {<<>>, <<TitleChar>>} \cup { <<d>> : d \in Days }

\* DateOK without the test against the clock
DateOKAnyDate(p) == ~p.err

\* the date was parsed and is not after time.Now()
DateOK(p) == ~p.err /\ ~(p.t > now)

\* flag.NFlag(): the number of flags set on the command line
NFlag(a) == (IF a.i THEN 1 ELSE 0) + (IF a.mode # "" THEN 1 ELSE 0)
            + (IF a.since # <<>> THEN 1 ELSE 0) + (IF a.repo # "" THEN 1 ELSE 0)
            + (IF a.urls # "" THEN 1 ELSE 0)

\* flag.Parsed() where main reads it: flag.Parse() has been called
Parsed == TRUE

\* the test of main for running interactively
Interactive(a) == a.i \/ (NFlag(a) = 0 /\ ~Parsed)

\* the command lines of the model, each with and without -i
ArgSets ==
  { [a EXCEPT !.i = b] :
      b \in BOOLEAN,
      a \in {NoArgs, [NoArgs EXCEPT !.mode = "bogus"]}
            \cup { [NoArgs EXCEPT !.mode = "open", !.urls = u] : u \in {"", "prs.csv"} }
            \cup { [NoArgs EXCEPT !.mode = "list", !.since = d, !.repo = r] :
                     d \in DateStrs, r \in {"", "o/r"} } }

\* the program started with a command line
InitMain ==
  /\ args \in ArgSets
  /\ now \in 0 .. MaxTick
  /\ data \in {{}, UNION { DayPRs(d, Cap) : d \in Days }}
  /\ failing = {}
  /\ newestFirst = TRUE
  /\ sinceDate = 0
  /\ currentStart = 0
  /\ currentEnd = 0
  /\ chunkCount = 0
  /\ allPRs = <<>>
  /\ seenPRs = {}
  /\ stack = <<>>
  /\ pc = "main"
  /\ retErr = "nil"
  /\ log = <<>>
  /\ run = 1
  /\ firstIds = {}
  /\ resp = NoResp
  /\ disk = NoDisk

\* a line printed by main or by a prompt
Line(kind) == Ev(kind, 0, 0, 0, TRUE, {})

\* getMergedPRs is called with the date t
EnterList(t) ==
  /\ sinceDate' = t
  /\ currentStart' = t
  /\ currentEnd' = t
  /\ chunkCount' = 0
  /\ allPRs' = <<>>
  /\ seenPRs' = {}
  /\ stack' = <<>>
  /\ pc' = "loop"
  /\ retErr' = "nil"

\* main or a handler ends, or waits at a prompt, with nothing fetched
Leave(to) ==
  /\ pc' = to
  /\ UNCHANGED <<sinceDate, currentStart, currentEnd, chunkCount, allPRs, seenPRs,
                 stack, retErr>>

\* main from flag.Parse() to the call of getMergedPRs or to its exit
Main ==
  /\ pc = "main"
  /\ IF Interactive(args)
     THEN Leave("menu") /\ log' = <<Line("menu")>>
     ELSE IF args.mode = "list"
     THEN IF args.since = <<>> \/ args.repo = ""
          THEN Leave("usage") /\ log' = Append(log, Line("usage"))
          ELSE IF ~DateOK(ParseDate(args.since))
          THEN Leave("fatal") /\ log' = Append(log, Line("fatal"))
          ELSE EnterList(ParseDate(args.since).t) /\ log' = log
     ELSE IF args.mode = "open"
     THEN IF args.urls = ""
          THEN Leave("usage") /\ log' = Append(log, Line("usage"))
          ELSE Leave("exit") /\ log' = log
     ELSE Leave("usage") /\ log' = Append(log, Line("usage"))
  /\ UNCHANGED <<args, resp, disk, now, data, failing, newestFirst, run, firstIds>>

\* runInteractiveMode: the menu is printed and a choice is read
Menu ==
  /\ pc = "menu"
  /\ \E choice \in {"1", "2", "3", "x"} :
       IF choice = "1" THEN Leave("promptDate")
       ELSE IF choice = "3" THEN Leave("exit")
       ELSE Leave("menu")
  /\ log' = <<Line("menu")>>
  /\ UNCHANGED <<args, resp, disk, now, data, failing, newestFirst, run, firstIds>>

\* promptDate, one iteration: a date is read; one that does not parse or is in
\* the future is refused and asked for again
PromptDate ==
  /\ pc = "promptDate"
  /\ \E dateStr \in DateStrs :
       IF ~DateOK(ParseDate(dateStr))
       THEN /\ Cardinality({ i \in 1 .. Len(log) : log[i].kind = "badDate" }) < MaxPrompts
            /\ Leave("promptDate")
            /\ log' = Append(log, Line("badDate"))
       ELSE EnterList(ParseDate(dateStr).t) /\ log' = log
  /\ UNCHANGED <<args, resp, disk, now, data, failing, newestFirst, run, firstIds>>

\* getMergedPRs returned to its caller: main ends, handleListMode returns to
\* the menu of runInteractiveMode
ListDone ==
  /\ pc = "done"
  /\ IF Interactive(args)
     THEN /\ pc' = "menu"
          /\ log' = <<Line("menu")>>
          /\ sinceDate' = 0 /\ currentStart' = 0 /\ currentEnd' = 0
          /\ chunkCount' = 0 /\ allPRs' = <<>> /\ seenPRs' = {}
          /\ UNCHANGED <<stack, retErr>>
     ELSE Leave("exit") /\ log' = log
  /\ UNCHANGED <<args, resp, disk, now, data, failing, newestFirst, run, firstIds>>

NextMain == Main \/ Menu \/ PromptDate \/ ListDone \/ StartChunk \/ Resolve \/ Finish

SpecMain == InitMain /\ [][NextMain]_vars

\* ---- one response, parsed ------------------------------------------------
RECURSIVE JoinFields(_)
\* a line of tab-separated values
JoinFields(fields) == IF Len(fields) <= 1 THEN (IF fields = <<>> THEN <<>> ELSE fields[1])
                      ELSE Head(fields) \o <<Tab>> \o JoinFields(Tail(fields))

\* the rows a response is made of, each the sequence of its fields: the empty
\* line, and the rows of 1 to MaxFields fields that begin and end with the text
\* x, the fields between all x or all empty (gh prints no empty number or URL)
RowShapes ==
  { <<<<>>>> } \cup
  { [k \in 1 .. n |-> IF k = 1 \/ k = n \/ full THEN x ELSE <<>>] :
      n \in 1 .. MaxFields, x \in {<<0>>, <<1>>}, full \in BOOLEAN }

\* the responses: at most MaxRows rows
Responses == UNION { [1 .. n -> RowShapes] : n \in 0 .. MaxRows }

\* a gh command has run: it failed, or printed the rows of a response
InitRows ==
  /\ \E rows \in Responses, f \in BOOLEAN :
       resp = [rows |-> rows,
               cmd |-> [fails |-> f,
                        stdout |-> JoinLines([i \in 1 .. Len(rows) |-> JoinFields(rows[i])])],
               result |-> NoResp.result]
  /\ pc = "fetch"
  /\ args = NoArgs
  /\ disk = NoDisk
  /\ sinceDate = 0 /\ now = 0 /\ data = {} /\ failing = {} /\ newestFirst = TRUE
  /\ currentStart = 0 /\ currentEnd = 0 /\ chunkCount = 0
  /\ allPRs = <<>> /\ seenPRs = {} /\ stack = <<>>
  /\ retErr = "nil" /\ log = <<>> /\ run = 1 /\ firstIds = {}

\* fetchPRsForDateRange from the return of the command on
FetchRows ==
  /\ pc = "fetch"
  /\ resp' = [resp EXCEPT !.result = Fetched(resp.cmd)]
  /\ pc' = "fetched"
  /\ UNCHANGED <<args, disk, inputs, currentStart, currentEnd, chunkCount, allPRs,
                 seenPRs, stack, retErr, log, run, firstIds>>

NextRows == FetchRows

SpecRows == InitRows /\ [][NextRows]_vars

\* ---- the loop in seconds ----------------------------------------------------
\* The same loop with its real constants: a time is a number of seconds, a year
\* has its twelve months, a day is 24 hours and the limit is 1000.  Only what
\* decides the depth of the recursion and the number of fetches is kept: a fetch
\* answers with an error and a count, and no record is carried.

\* time.Hour and "24*time.Hour", in seconds
Hour == 3600
Day == 86400

\* "--limit", "1000"
Limit == 1000

\* the years of the calendar: year 0 is a leap year, the others are common
Years == 0 .. 3
Leap(y) == y = 0

\* the days of month m of year y
daysIn(y, m) ==
  IF m = 2 THEN (IF Leap(y) THEN 29 ELSE 28)
  ELSE IF m \in {4, 6, 9, 11} THEN 30 ELSE 31

RECURSIVE DaysBefore(_, _)
\* the days of year y before its month m
DaysBefore(y, m) == IF m = 1 THEN 0 ELSE DaysBefore(y, m - 1) + daysIn(y, m - 1)

\* time.Date(y, m, d): the number of the day, a day past the end of the month
\* running over into the next month
DateDay(y, m, d) ==
  (IF y = 0 THEN 0 ELSE 366 + 365 * (y - 1)) + DaysBefore(y, m) + d - 1

\* the year and month of the day of number n
YearMonth(n) ==
  CHOOSE c \in Years \X (1 .. 12) :
    /\ DateDay(c[1], c[2], 1) <= n
    /\ n < DateDay(c[1], c[2], 1) + daysIn(c[1], c[2])

\* t.AddDate(0, 1, 0): the same day of the next month at the same time of day,
\* normalised by time.Date
AddDate(t) ==
  LET n == t \div Day
      c == YearMonth(n)
      d == n - DateDay(c[1], c[2], 1) + 1
      y == IF c[2] = 12 THEN c[1] + 1 ELSE c[1]
      m == IF c[2] = 12 THEN 1 ELSE c[2] + 1
  IN DateDay(y, m, d) * Day + (t % Day)

\* the midnights a run starts from: the first, the middle and the last days of
\* each month of a leap year and of a common year (day 31 of a shorter month is
\* one of the first days of the next)
SinceDates ==
  { DateDay(y, m, d) * Day :
      y \in 0 .. 1, m \in 1 .. 12, d \in {1, 15, 28, 29, 30, 31} }

\* how long after sinceDate the run is made: a day and a half, or a month and
\* a half
Ages == {36 * Hour + OneSecond, 45 * Day + 12 * Hour}

\* the dates the backend holds a limit's worth of merged PRs on: none, every
\* one, or one of the first days only
AllDates == 0 .. DateDay(3, 12, 31)
BusyDates(first) == {{}, AllDates, {first}, {first + 20}}

\* "gh pr list --search merged:A..B --limit 1000" reduced to its error and its
\* count
FetchedSeconds(startDate, endDate) ==
  LET a == startDate \div Day
      b == endDate \div Day
  IN [err |-> <<a, b>> \in failing,
      count |-> IF data \cap (a .. b) = {} THEN 0 ELSE Limit]

InitSeconds ==
  /\ sinceDate \in SinceDates
  /\ now \in { sinceDate + a : a \in Ages }
  /\ data \in BusyDates(sinceDate \div Day)
  /\ failing \in {{}, {<<sinceDate \div Day, sinceDate \div Day>>}}
  /\ newestFirst = TRUE
  /\ currentStart = sinceDate
  /\ currentEnd = sinceDate
  /\ chunkCount = 0
  /\ allPRs = <<>>
  /\ seenPRs = {}
  /\ stack = <<>>
  /\ pc = "loop"
  /\ retErr = "nil"
  /\ log = <<>>
  /\ run = 1
  /\ firstIds = {}
  /\ args = NoArgs
  /\ resp = NoResp
  /\ disk = NoDisk

\* getMergedPRs, one iteration of the loop up to the call of fetchPRsRecursive
StartChunkSeconds ==
  /\ pc = "loop" /\ stack = <<>>
  /\ currentStart < now
  /\ LET next == AddDate(currentStart)
         end  == IF next > now THEN now ELSE next
     IN /\ currentEnd' = end
        /\ chunkCount' = chunkCount + 1
        /\ stack' = <<[start |-> currentStart, end |-> end, depth |-> 0]>>
        /\ log' = Append(log, [Ev("chunk", 0, currentStart, end, TRUE, {})
                                 EXCEPT !.chunk = chunkCount + 1])
  /\ UNCHANGED <<outer, inputs, currentStart, allPRs, seenPRs, pc, retErr, run, firstIds>>

\* "count >= 1000"
HitLimitSeconds(count) == count >= Limit

\* CanSplitSeconds with a floor of half a day
CanSplitSecondsHalfDay(duration) == ~(duration < 12 * Hour)

\* "duration < 24*time.Hour" is the floor: a shorter window is not split
CanSplitSeconds(duration) == ~(duration < Day)

\* one call of fetchPRsRecursive, up to its return or its first recursive call
ResolveSeconds ==
  /\ pc = "loop" /\ stack # <<>>
  /\ LET f == Head(stack)
         rest == Tail(stack)
         duration == f.end - f.start
     IN IF TooDeep(f.depth)
        THEN Failed(<<>>)
        ELSE \E r \in {FetchedSeconds(f.start, f.end)} :
             \E q \in {Ev("query", f.depth, f.start, f.end, ~r.err, {})} :
               IF r.err
               THEN Failed(<<q>>)
               ELSE IF HitLimitSeconds(r.count) /\ CanSplitSeconds(duration)
               THEN /\ Returned(Halves(f) \o rest)
                    /\ log' = log \o <<q, Ev("split", f.depth, f.start, f.end, TRUE, {})>>
                    /\ UNCHANGED <<allPRs, seenPRs>>
               ELSE /\ Returned(rest)
                    /\ log' = log \o <<q>>
                          \o (IF HitLimitSeconds(r.count)
                              THEN <<Ev("warnFloor", f.depth, f.start, f.end, TRUE, {})>>
                              ELSE <<>>)
                    /\ UNCHANGED <<allPRs, seenPRs>>
  /\ UNCHANGED <<outer, inputs, currentEnd, chunkCount, pc, retErr, run, firstIds>>

NextSeconds == StartChunkSeconds \/ ResolveSeconds \/ Finish

SpecSeconds == InitSeconds /\ [][NextSeconds]_vars

\* ---- the CSV file, written and read back -----------------------------------
\* The words of a header are characters of their own: the character WordChar(k)
\* stands for the text Words[k].
Words == <<"PR Number", "Title", "Merged At", "URL">>
WordChar(k) == -(10 + k)

\* strings.ToLower on the words of a header
ToLower(w) ==
  CASE w = "PR Number" -> "pr number"
    [] w = "Title" -> "title"
    [] w = "Merged At" -> "merged at"
    [] w = "URL" -> "url"
    [] OTHER -> w

\* strings.ToLower(strings.TrimSpace(header)) read as a word; a cell that is
\* no word of a header is none of the names detectCSVFormat knows
HeaderName(cell) ==
  LET h == TrimSpace(cell)
  IN IF Len(h) = 1 /\ h[1] \in { WordChar(k) : k \in 1 .. Len(Words) }
     THEN ToLower(Words[-(h[1]) - 10])
     ELSE "?"

\* the last column whose header is one of names, from 0, or -1
Column(headers, names) ==
  LET hits == { i \in 1 .. Len(headers) : HeaderName(headers[i]) \in names }
  IN IF hits = {} THEN -1
     ELSE (CHOOSE i \in hits : \A j \in hits : j <= i) - 1

detectCSVFormat(headers) ==
  [URLColumn      |-> Column(headers, {"url", "pr url", "pull request url"}),
   OwnerColumn    |-> Column(headers, {"owner", "repository owner", "repo owner"}),
   RepoColumn     |-> Column(headers, {"repo", "repository", "repo name"}),
   PRNumberColumn |-> Column(headers, {"pr", "pr number", "pull request",
                                       "pull request number"})]

\* "https://github.com/%s/%s/pull/%s": the fixed texts are characters of their own
UrlHost == -21
Slash == -22
Pull == -23
buildGitHubURL(owner, repo, prNumber) ==
  <<UrlHost>> \o owner \o <<Slash>> \o repo \o <<Pull>> \o prNumber

\* csv.Writer.fieldNeedsQuotes: a field that is not empty and holds the
\* delimiter, a quote, a carriage return or a newline, or begins with white space
fieldNeedsQuotes(field) ==
  /\ field # <<>>
  /\ \/ \E i \in 1 .. Len(field) : field[i] \in {Comma, Quote, Return, Newline}
     \/ field[1] \in Space

RECURSIVE Doubled(_)
\* the text of a field with every quote written twice
Doubled(field) ==
  IF field = <<>> THEN <<>>
  ELSE (IF Head(field) = Quote THEN <<Quote, Quote>> ELSE <<Head(field)>>)
       \o Doubled(Tail(field))

\* WriteField that never quotes
WriteFieldBare(field) == field

\* a field as csv.Writer writes it: as it is, or between quotes with its quotes
\* doubled
WriteField(field) ==
  IF fieldNeedsQuotes(field)
  THEN <<Quote>> \o Doubled(field) \o <<Quote>>
  ELSE field

RECURSIVE WriteFields(_)
WriteFields(record) ==
  IF Len(record) = 1 THEN WriteField(record[1])
  ELSE WriteField(Head(record)) \o <<Comma>> \o WriteFields(Tail(record))

\* csv.Writer.Write: the fields of a record, commas between them, and a newline
WriteRecord(record) == WriteFields(record) \o <<Newline>>

RECURSIVE WriteRecords(_)
WriteRecords(records) ==
  IF records = <<>> THEN <<>>
  ELSE WriteRecord(Head(records)) \o WriteRecords(Tail(records))

\* saveToCSV: the header, then one record for each PR
saveToCSV(prs) ==
  WriteRecord([k \in 1 .. Len(Words) |-> <<WordChar(k)>>])
  \o WriteRecords([i \in 1 .. Len(prs) |->
                     <<prs[i].Number, prs[i].Title, prs[i].MergedAt, prs[i].URL>>])

\* detectDelimiter: the tab when the first line holds more tabs than commas,
\* the comma otherwise
detectDelimiter(file) ==
  LET ends == Positions(file, {Newline}, TRUE)
      firstLine == IF ends = <<>> THEN file ELSE SubSeq(file, 1, ends[1])
  IN IF Len(Positions(firstLine, {Tab}, TRUE)) > Len(Positions(firstLine, {Comma}, TRUE))
     THEN Tab ELSE Comma

\* csv.Reader.readLine: of every line the carriage return before its newline is
\* dropped, and so is a carriage return that ends the file
Normalised(file) ==
  LET keep == SelectSeq([i \in 1 .. Len(file) |-> i],
                LAMBDA i : ~(/\ file[i] = Return
                             /\ (i = Len(file) \/ file[i + 1] = Newline)))
  IN [k \in 1 .. Len(keep) |-> file[keep[k]]]

ReadError == [err |-> TRUE, records |-> <<>>]

RECURSIVE Scan(_, _, _, _, _, _, _)
\* csv.Reader.readRecord, a character at a time, from position i of s: at is
\* "record" at the start of a line, "field" at the start of a field, "bare" in
\* a field without quotes, "quoted" in a field between quotes, "closing" after
\* a quote met in such a field.  An empty line is skipped; a quote in a field
\* without quotes, a quoted field the file ends in, and a closing quote followed
\* by anything but a quote, the delimiter or the end of the line are errors.
Scan(s, sep, i, at, field, record, records) ==
  LET atEnd == i > Len(s)
      c == IF atEnd THEN Newline ELSE s[i]
      closed == Append(records, Append(record, field))
  IN CASE at = "record" ->
            IF atEnd THEN [err |-> FALSE, records |-> records]
            ELSE IF c = Newline THEN Scan(s, sep, i + 1, "record", <<>>, <<>>, records)
            ELSE Scan(s, sep, i, "field", <<>>, <<>>, records)
       [] at = "field" ->
            IF ~atEnd /\ c = Quote
            THEN Scan(s, sep, i + 1, "quoted", <<>>, record, records)
            ELSE Scan(s, sep, i, "bare", <<>>, record, records)
       [] at = "bare" ->
            IF atEnd THEN [err |-> FALSE, records |-> closed]
            ELSE IF c = Newline THEN Scan(s, sep, i + 1, "record", <<>>, <<>>, closed)
            ELSE IF c = sep
            THEN Scan(s, sep, i + 1, "field", <<>>, Append(record, field), records)
            ELSE IF c = Quote THEN ReadError
            ELSE Scan(s, sep, i + 1, "bare", Append(field, c), record, records)
       [] at = "quoted" ->
            IF atEnd THEN ReadError
            ELSE IF c = Quote THEN Scan(s, sep, i + 1, "closing", field, record, records)
            ELSE Scan(s, sep, i + 1, "quoted", Append(field, c), record, records)
       [] at = "closing" ->
            IF atEnd THEN [err |-> FALSE, records |-> closed]
            ELSE IF c = Quote
            THEN Scan(s, sep, i + 1, "quoted", Append(field, Quote), record, records)
            ELSE IF c = sep
            THEN Scan(s, sep, i + 1, "field", <<>>, Append(record, field), records)
            ELSE IF c = Newline THEN Scan(s, sep, i + 1, "record", <<>>, <<>>, closed)
            ELSE ReadError

\* csv.Reader.ReadAll with reader.Comma = sep: the records of the file, or an
\* error; a record with another number of fields than the first is an error
ReadAll(file, sep) ==
  LET r == Scan(Normalised(file), sep, 1, "record", <<>>, <<>>, <<>>)
  IN IF r.err THEN r
     ELSE IF \E k \in 1 .. Len(r.records) : Len(r.records[k]) # Len(r.records[1])
     THEN ReadError
     ELSE r

\* the URL of a data row, empty when the row is to be skipped
RowURL(format, record) ==
  IF format.URLColumn # -1
  THEN IF format.URLColumn >= Len(record) THEN <<>>
       ELSE TrimSpace(record[format.URLColumn + 1])
  ELSE IF \/ format.OwnerColumn >= Len(record)
          \/ format.RepoColumn >= Len(record)
          \/ format.PRNumberColumn >= Len(record)
       THEN <<>>
       ELSE buildGitHubURL(TrimSpace(record[format.OwnerColumn + 1]),
                           TrimSpace(record[format.RepoColumn + 1]),
                           TrimSpace(record[format.PRNumberColumn + 1]))

\* ParsePRURLsFromCSV on a file that can be opened
ParsePRURLsFromCSV(file) ==
  LET r == ReadAll(file, detectDelimiter(file))
      format == detectCSVFormat(r.records[1])
      rows == Tail(r.records)
      urls == [k \in 1 .. Len(rows) |-> RowURL(format, rows[k])]
  IN IF r.err \/ Len(r.records) < 2 THEN [err |-> TRUE, urls |-> <<>>]
     ELSE IF /\ format.URLColumn = -1
             /\ \/ format.OwnerColumn = -1
                \/ format.RepoColumn = -1
                \/ format.PRNumberColumn = -1
     THEN [err |-> TRUE, urls |-> <<>>]
     ELSE [err |-> FALSE, urls |-> SelectSeq(urls, LAMBDA u : u # <<>>)]

\* The characters of the fields of a PR: fetchPRsForDateRange makes a PR of a
\* line of the response split at the tabs, so that no field holds a newline or
\* a tab (a carriage return and a newline inside a field would be read back as
\* a newline alone).
FieldChars == {0, Comma, Quote, Return, Blank}

RECURSIVE Texts(_)
\* the texts of at most n characters
Texts(n) ==
  IF n = 0 THEN {<<>>}
  ELSE Texts(n - 1) \cup { Append(t, c) : t \in Texts(n - 1), c \in FieldChars }

Titles == {<<TitleChar>>, <<TitleChar, Comma, Blank, TitleChar>>, <<Quote, Return>>}

\* the lists saveToCSV is given: none, one or two PRs, the URLs any texts, the
\* title of the first any of Titles
PRLists ==
  LET first == { [Number |-> <<1>>, Title |-> t, MergedAt |-> <<1>>, URL |-> u] :
                   t \in Titles, u \in Texts(MaxUrlLen) }
      second == { [Number |-> <<2>>, Title |-> <<TitleChar>>, MergedAt |-> <<2>>,
                   URL |-> u] : u \in Texts(MaxUrlLen) }
  IN {<<>>} \cup { <<p>> : p \in first }
            \cup { <<p, q>> : p \in first, q \in second }

\* handleListMode after getMergedPRs returned: the list to be saved
InitCsv ==
  /\ allPRs \in PRLists
  /\ pc = "save"
  /\ disk = NoDisk
  /\ args = NoArgs
  /\ resp = NoResp
  /\ sinceDate = 0 /\ now = 0 /\ data = {} /\ failing = {} /\ newestFirst = TRUE
  /\ currentStart = 0 /\ currentEnd = 0 /\ chunkCount = 0
  /\ seenPRs = {} /\ stack = <<>>
  /\ retErr = "nil" /\ log = <<>> /\ run = 1 /\ firstIds = {}

\* saveToCSV(prs, outputFile)
SaveToCSV ==
  /\ pc = "save"
  /\ disk' = [disk EXCEPT !.file = saveToCSV(allPRs)]
  /\ pc' = "saved"
  /\ UNCHANGED <<args, resp, inputs, currentStart, currentEnd, chunkCount, allPRs,
                 seenPRs, stack, retErr, log, run, firstIds>>

\* openPRsFromCSV: ParsePRURLsFromCSV(file) on the file saved
ReadCSV ==
  /\ pc = "saved"
  /\ disk' = [disk EXCEPT !.read = ParsePRURLsFromCSV(disk.file)]
  /\ pc' = "read"
  /\ UNCHANGED <<args, resp, inputs, currentStart, currentEnd, chunkCount, allPRs,
                 seenPRs, stack, retErr, log, run, firstIds>>

NextCsv == SaveToCSV \/ ReadCSV

SpecCsv == InitCsv /\ [][NextCsv]_vars

TypeOK ==
  /\ pc \in {"main", "menu", "promptDate", "loop", "done", "usage", "fatal",
            "exit", "fetch", "fetched", "save", "saved", "read"}
  /\ seenPRs \subseteq { MkPR(t).URL : t \in Slots }

\* ---- the log, read back ---------------------------------------------------
Queries == { i \in 1 .. Len(log) : log[i].kind = "query" }
Saturated(ev) == ev.ok /\ Cardinality(ev.ids) >= Cap
Bisected(ev) == Saturated(ev) /\ ev.end - ev.start >= DayLen
Admitting(ev) == ev.ok /\ ~Bisected(ev)
NoQueryFailed == \A i \in Queries : log[i].ok

\* ---- C1 -------------------------------------------------------------------
\* C1: the result returned by getMergedPRs never holds two entries with the
\* same identifier (URL).
C1_NoDuplicateIds ==
  pc = "done" =>
    \A i, j \in 1 .. Len(allPRs) : i # j => allPRs[i].URL # allPRs[j].URL

\* a finished run in which one PR came back from two admitted fetches
C1_Witness ==
  /\ pc = "done"
  /\ \E i, j \in Queries :
       /\ i < j /\ Admitting(log[i]) /\ Admitting(log[j])
       /\ log[i].ids \cap log[j].ids # {}
       /\ \E k \in 1 .. Len(allPRs) : Id(allPRs[k].URL) \in log[i].ids \cap log[j].ids

\* ---- C2 -------------------------------------------------------------------
\* C2: when every fetch of the run succeeded with fewer rows than the limit,
\* the returned records are exactly the records the fetches returned.
C2_CompleteBelowCap ==
  (pc = "done" /\ \A i \in Queries : log[i].ok /\ ~Saturated(log[i])) =>
    /\ Urls(allPRs) = UNION { log[i].ids : i \in Queries }
    /\ \A k \in 1 .. Len(allPRs) : allPRs[k] = MkPR(Id(allPRs[k].URL))

\* a finished run of two chunks, both fetched below the limit and not empty
C2_Witness ==
  /\ pc = "done"
  /\ Cardinality(Queries) = 2
  /\ \A i \in Queries : log[i].ok /\ ~Saturated(log[i]) /\ log[i].ids # {}
  /\ allPRs # <<>>

\* ---- C3 -------------------------------------------------------------------
\* C3 (as claimed): every matching PR merged between sinceDate and now is in
\* the result, however many PRs a window holds (here: even when no fetch fails).
C3_AllMatchingFetched ==
  (pc = "done" /\ NoQueryFailed) =>
    \A t \in data : (sinceDate <= t /\ t < now) => t \in Urls(allPRs)

\* ---- C4 -------------------------------------------------------------------
RECURSIVE Calls(_)
\* the most calls of fetchPRsRecursive a window of duration d can take
Calls(d) == IF d < DayLen THEN 1
            ELSE 1 + Calls(d \div 2) + Calls(d - (d \div 2) - OneSecond)

MaxCalls == CHOOSE m \in { Calls(d) : d \in 0 .. MaxTick } :
              \A d \in 0 .. MaxTick : Calls(d) <= m

RECURSIVE StackCalls(_)
StackCalls(st) == IF st = <<>> THEN 0
                  ELSE Calls(Head(st).end - Head(st).start) + StackCalls(Tail(st))

\* the work left in the run: the span still to cover, then the pending calls
Measure ==
  (MaxCalls + 2) * (IF currentStart < now THEN now - currentStart ELSE 0)
  + (IF stack = <<>> THEN MaxCalls + 1 ELSE StackCalls(stack))
  + (IF pc = "done" THEN 0 ELSE 1)

\* C4: every step of a run of getMergedPRs strictly decreases a natural-number
\* measure of the work left, so the run ends for every span and every backend;
\* and no pending call of fetchPRsRecursive is ever deeper than the depth bound,
\* so each branch ends at a sub-day window or an unsaturated fetch.
C4_BisectionTerminates ==
  [][ /\ (run' = run => (Measure' < Measure /\ Measure' >= 0))
      /\ \A i \in 1 .. Len(stack') : stack'[i].depth <= MaxDepth ]_vars

\* a finished run of several chunks in which every fetch hit the limit, bisected
\* down to sub-day windows at depth 2
C4_Witness ==
  /\ pc = "done"
  /\ chunkCount > 1
  /\ \A i \in Queries : Saturated(log[i])
  /\ \E i \in 1 .. Len(log) : log[i].kind = "warnFloor" /\ log[i].depth >= 2

\* ---- C5 -------------------------------------------------------------------
\* the queries of the two halves of the window bisected by log entry i
FirstHalf(i) ==
  { j \in Queries : /\ j > i /\ log[j].chunk = log[i].chunk
                    /\ log[j].depth = log[i].depth + 1
                    /\ log[j].start = log[i].start
                    /\ log[j].end = log[i].start + ((log[i].end - log[i].start) \div 2) }
SecondHalf(i) ==
  { j \in Queries : /\ j > i /\ log[j].chunk = log[i].chunk
                    /\ log[j].depth = log[i].depth + 1
                    /\ log[j].end = log[i].end
                    /\ log[j].start = log[i].start + ((log[i].end - log[i].start) \div 2)
                                      + OneSecond }
Occurrences(t) == Cardinality({ k \in 1 .. Len(allPRs) : allPRs[k].URL = MkPR(t).URL })

\* C5 (as claimed): a PR merged exactly at the midpoint of a bisected window, or
\* at the instant shared by two consecutive chunks, is returned for only one of
\* the two windows, and is in the final result exactly once.
C5_BoundaryExactlyOnce ==
  /\ \A i \in Queries : \A t \in data :
       (Bisected(log[i]) /\ t = log[i].start + ((log[i].end - log[i].start) \div 2)) =>
         /\ ~ \E j \in FirstHalf(i), k \in SecondHalf(i) :
                t \in log[j].ids /\ t \in log[k].ids
         /\ (pc = "done" /\ NoQueryFailed) => Occurrences(t) = 1
  /\ \A i, j \in Queries : \A t \in data :
       ( /\ log[i].depth = 0 /\ log[j].depth = 0
         /\ log[j].chunk = log[i].chunk + 1 /\ t = log[i].end ) =>
         /\ ~ (t \in log[i].ids /\ t \in log[j].ids)
         /\ (pc = "done" /\ NoQueryFailed) => Occurrences(t) = 1

\* ---- C6 -------------------------------------------------------------------
Chunks == { i \in 1 .. Len(log) : log[i].kind = "chunk" }
Warnings == { i \in 1 .. Len(log) : log[i].kind = "warnErr" }

\* C6: a failed chunk does not end the run: each chunk that ends before now,
\* failed or not, is followed by the chunk that starts where it ended, the last
\* chunk ends at now, and getMergedPRs returns a nil error.
C6_FailureDoesNotAbort ==
  pc = "done" =>
    /\ retErr = "nil"
    /\ \A i \in Chunks :
         log[i].end < now =>
           \E j \in Queries : /\ j > i /\ log[j].chunk = log[i].chunk + 1
                              /\ log[j].depth = 0 /\ log[j].start = log[i].end
    /\ sinceDate < now => \E i \in Chunks : log[i].end = now

\* a finished run whose first chunk failed and whose second chunk was fetched
C6_Witness ==
  /\ pc = "done"
  /\ \E w \in Warnings, j \in Queries :
       /\ log[w].chunk = 1 /\ j > w /\ log[j].chunk = 2 /\ log[j].ok
       /\ log[j].ids # {} /\ log[j].ids \subseteq Urls(allPRs)

\* ---- C7 -------------------------------------------------------------------
\* C7: a fetch that fails is followed at once by the warning for its chunk,
\* naming the chunk's dates, before any line or query of the next chunk.
C7_FailureWarned ==
  \A i \in Queries :
    ~log[i].ok =>
      /\ i + 1 <= Len(log)
      /\ log[i + 1].kind = "warnErr"
      /\ log[i + 1].chunk = log[i].chunk
      /\ \E c \in Chunks : /\ log[c].chunk = log[i].chunk
                           /\ Format(log[i + 1].start) = Format(log[c].start)
                           /\ Format(log[i + 1].end) = Format(log[c].end)

\* a failed fetch inside a bisected first chunk, warned before the second chunk
C7_Witness ==
  \E i \in Queries, c \in Chunks :
    /\ ~log[i].ok /\ log[i].depth > 0 /\ log[i].chunk = 1
    /\ log[c].chunk = 2 /\ c > i + 1

\* ---- C8 -------------------------------------------------------------------
\* C8 (as claimed): a run in which a chunk failed ends with a final warning
\* summary of the failures.
C8_FinalWarningSummary ==
  (pc = "done" /\ Warnings # {}) =>
    /\ log # <<>>
    /\ log[Len(log)].kind = "warnSummary"

\* C8 (amended): a run in which a chunk failed ends with the line giving the
\* total, printed once, after every chunk; the failures are reported by the
\* per-chunk warnings before it and by nothing else.
C8_TotalLineIsLast ==
  (pc = "done" /\ Warnings # {}) =>
    /\ log # <<>>
    /\ log[Len(log)].kind = "total"
    /\ \A i \in 1 .. Len(log) :
         /\ log[i].kind = "total" => i = Len(log)
         /\ log[i].kind \in {"chunk", "query", "split", "warnFloor", "found",
                             "warnErr", "total"}

\* a finished run with a failed chunk
C8_Witness ==
  /\ pc = "done"
  /\ Warnings # {}
  /\ \E i \in Queries : log[i].ok /\ log[i].ids # {}

\* ---- C9 -------------------------------------------------------------------
\* C9: a second run with the same arguments, clock and backend returns the
\* same set of identifiers as the first.
C9_Deterministic ==
  (run = 2 /\ pc = "done") => Urls(allPRs) = firstIds

\* a second run finished after bisecting, with a result that is not empty
C9_Witness ==
  /\ run = 2 /\ pc = "done"
  /\ firstIds # {}
  /\ \E i \in 1 .. Len(log) : log[i].kind = "split"

\* ---- C10 ------------------------------------------------------------------
\* C10: a fetch that hits the limit on a window shorter than a day is followed
\* by the floor warning for that window and by no split, no error warning and
\* no deeper call as the next query; the rows it returned are all in the result,
\* each once.
C10_OneDayFloor ==
  \A i \in Queries :
    (Saturated(log[i]) /\ log[i].end - log[i].start < DayLen) =>
      /\ i + 1 <= Len(log)
      /\ log[i + 1].kind = "warnFloor"
      /\ log[i + 1].start = log[i].start /\ log[i + 1].end = log[i].end
      /\ (i + 2 <= Len(log) => log[i + 2].kind \notin {"split", "warnErr"})
      /\ \A j \in Queries :
           (j > i /\ ~ \E k \in Queries : i < k /\ k < j) => log[j].depth <= log[i].depth
      /\ \A t \in log[i].ids : Occurrences(t) = 1

\* a sub-day window fetched at the limit, one of its rows seen before
C10_Witness ==
  \E i \in Queries :
    /\ Saturated(log[i]) /\ log[i].end - log[i].start < DayLen
    /\ \E j \in Queries : j < i /\ Admitting(log[j]) /\ log[j].ids \cap log[i].ids # {}

\* ---- C11 ------------------------------------------------------------------
\* the warnings of a chunk that failed at the depth limit: no failed query
\* comes before them
LimitWarnings == { w \in Warnings : w > 1 /\ log[w - 1].kind # "query" }

\* C11: no query is ever sent from a call deeper than the depth limit; a call
\* entered beyond the limit sends no query and admits nothing, the only line it
\* leaves is the warning for its chunk, and the loop of getMergedPRs goes on
\* with the next chunk.
C11_DepthBounded ==
  [][ /\ \A i \in 1 .. Len(log') :
           log'[i].kind = "query" => log'[i].depth <= MaxDepth
      /\ (stack # <<>> /\ Head(stack).depth > MaxDepth) =>
           /\ log' = Append(log, Ev("warnErr", 0, currentStart, currentEnd, FALSE, {}))
           /\ allPRs' = allPRs /\ seenPRs' = seenPRs
           /\ stack' = <<>> /\ pc' = "loop" /\ retErr' = "nil"
           /\ currentStart' = currentEnd ]_vars

\* a finished run whose first chunk was bisected from the limit into a call
\* beyond it, and whose second chunk was fetched
C11_Witness ==
  /\ pc = "done"
  /\ \E w \in LimitWarnings, j \in Queries :
       /\ log[w].chunk = 1 /\ log[w - 1].kind = "split" /\ log[w - 1].depth = MaxDepth
       /\ j > w /\ log[j].chunk = 2 /\ log[j].ok
       /\ log[j].ids # {} /\ log[j].ids \subseteq Urls(allPRs)

\* ---- C12 ------------------------------------------------------------------
\* list mode was given a date that does not parse or is after the clock: on
\* the command line, or at the prompt
BadDateGiven ==
  \/ /\ ~Interactive(args) /\ args.mode = "list" /\ args.since # <<>> /\ args.repo # ""
     /\ (ParseDate(args.since).err \/ ParseDate(args.since).t > now)
     /\ pc # "main"
  \/ \E i \in 1 .. Len(log) : log[i].kind = "badDate"

\* C12 (as claimed): list mode given a malformed or future date sends no query
\* and ends with a fatal error, never otherwise.
C12_InvalidDateFatal ==
  BadDateGiven =>
    /\ Queries = {}
    /\ pc \in {"done", "exit", "usage", "fatal", "menu"} => pc = "fatal"

\* C12 (amended): on the command line a malformed or future date ends list mode
\* with a fatal error and no query; at the prompt it is refused and the date is
\* asked for again; in both cases no query is sent before a date that parses
\* and is not after the clock was given, and a fatal end has sent no query.
C12_InvalidDateNoQuery ==
  /\ (~Interactive(args) /\ BadDateGiven) => (pc = "fatal" /\ Queries = {})
  /\ pc = "fatal" => Queries = {}
  /\ \A i \in 1 .. Len(log) :
       log[i].kind = "badDate" =>
         /\ Interactive(args)
         /\ pc \in {"promptDate", "loop", "done"}
         /\ \A j \in Queries : i < j
  /\ Queries # {} => (sinceDate % DayLen = 0 /\ ~(sinceDate > now))

\* list mode on the command line, given a date after the clock for a
\* repository with merged PRs, ended with the fatal error
C12_Witness ==
  /\ pc = "fatal"
  /\ ~Interactive(args) /\ args.mode = "list"
  /\ ~ParseDate(args.since).err /\ ParseDate(args.since).t > now
  /\ data # {}

\* ---- C13 ------------------------------------------------------------------
\* C13 (as claimed): started without arguments, or with -i, main enters the
\* interactive mode and prints its menu, and does not dispatch on -mode.
C13_NoArgsInteractive ==
  ((args = NoArgs \/ args.i) /\ pc # "main") =>
    /\ log # <<>>
    /\ log[1].kind = "menu"
    /\ pc # "usage"

\* ---- C14 ------------------------------------------------------------------
\* every fetch of the run succeeded and every fetch that was admitted came back
\* below the limit: each saturated window was bisected down to unsaturated ones
BisectedToBelowCap ==
  /\ NoQueryFailed
  /\ \A i \in Queries : Saturated(log[i]) => Bisected(log[i])

\* C14: when the saturated windows of a run were bisected until every
\* sub-window came back below the limit and no fetch failed, the result holds
\* every PR merged on a date from that of sinceDate to that of now, those of the
\* bisected chunk together with those of the other chunks, each exactly once.
C14_SaturatedComplete ==
  (pc = "done" /\ sinceDate < now /\ BisectedToBelowCap) =>
    /\ Urls(allPRs) = Matching(Format(sinceDate), Format(now))
    /\ Len(allPRs) = Cardinality(Matching(Format(sinceDate), Format(now)))
    /\ \A t \in data : (sinceDate <= t /\ t < now) => Occurrences(t) = 1

\* a finished run of two chunks, the first saturated and bisected into windows
\* below the limit, the second fetching a PR again that the first admitted
C14_Witness ==
  /\ pc = "done" /\ BisectedToBelowCap
  /\ chunkCount = 2
  /\ \E i, j \in Queries :
       /\ log[i].chunk = 1 /\ Bisected(log[i])
       /\ log[j].chunk = 2 /\ log[j].ids # {}
  /\ Len(allPRs) >= Cap

\* ---- C15 ------------------------------------------------------------------
\* C15: the chunks of getMergedPRs are numbered in the order they are started;
\* the first starts at sinceDate, each other one where the one before ended;
\* each ends one calendar month after its start, or at now when that month
\* would pass now, so that start < end <= now; once the loop is left the last
\* chunk ends at now (there is no chunk when sinceDate is not before now); and
\* there are no more chunks than shortest months between sinceDate and now.
C15_MonthlyPartition ==
  /\ \A i \in Chunks :
       /\ log[i].chunk \in 1 .. Cardinality(Chunks)
       /\ \A j \in Chunks : log[j].chunk = log[i].chunk => j = i
       /\ log[i].start < log[i].end /\ log[i].end <= now
       /\ log[i].chunk = 1 => log[i].start = sinceDate
       /\ \A j \in Chunks :
            log[j].chunk = log[i].chunk + 1 => (i < j /\ log[j].start = log[i].end)
       /\ \/ log[i].end = AddMonth(log[i].start)
          \/ log[i].end = now /\ AddMonth(log[i].start) > now
       /\ (pc = "done" /\ log[i].end < now) =>
            \E j \in Chunks : log[j].chunk = log[i].chunk + 1
  /\ (pc = "done" /\ sinceDate < now) => \E i \in Chunks : log[i].end = now
  /\ ~(sinceDate < now) => Chunks = {}
  /\ Cardinality(Chunks) = chunkCount
  /\ sinceDate < now =>
       chunkCount <= ((now - sinceDate) \div (ShortMonth * DayLen)) + 1

\* a finished run of three chunks, the last cut short at now
C15_Witness ==
  /\ pc = "done"
  /\ chunkCount = 3
  /\ \E i \in Chunks : /\ log[i].chunk = 3 /\ log[i].end = now
                       /\ AddMonth(log[i].start) > now

\* ---- C16 ------------------------------------------------------------------
\* the fetch of log entry i was followed by the split of its window
SplitAfter(i) ==
  /\ i + 1 <= Len(log)
  /\ log[i + 1].kind = "split"
  /\ log[i + 1].start = log[i].start /\ log[i + 1].end = log[i].end
  /\ log[i + 1].depth = log[i].depth

\* C16: a window whose fetch succeeded is split exactly when the fetch returned
\* the limit or more and the window is a day long or longer, and the call for
\* its first half comes next; a window fetched below the limit gets no further
\* query of its own or of a sub-window, and every record of its fetch is in the
\* result; so a run whose fetches all came back below the limit has sent one
\* query for each chunk.
C16_BisectedIffCapAndDay ==
  /\ \A i \in Queries :
       log[i].ok =>
         /\ SplitAfter(i) <=>
              (Cardinality(log[i].ids) >= Cap /\ log[i].end - log[i].start >= DayLen)
         /\ (SplitAfter(i) /\ i + 2 <= Len(log)) =>
              (log[i + 2].kind = "warnErr" \/ i + 2 \in FirstHalf(i))
         /\ Cardinality(log[i].ids) < Cap =>
              /\ log[i].ids \subseteq Urls(allPRs)
              /\ \A j \in Queries :
                   (j # i /\ log[j].chunk = log[i].chunk) =>
                     ~(log[i].start <= log[j].start /\ log[j].end <= log[i].end)
  /\ (pc = "done" /\ \A i \in Queries : log[i].ok /\ Cardinality(log[i].ids) < Cap) =>
       Cardinality(Queries) = Cardinality(Chunks)

\* a finished run with a chunk that was split, one half of it fetched below
\* the limit with a record, and another chunk resolved by its first fetch
C16_Witness ==
  /\ pc = "done"
  /\ \E i, k \in Queries :
       /\ SplitAfter(i) /\ log[i].depth = 0
       /\ \E j \in FirstHalf(i) \cup SecondHalf(i) :
            ~Saturated(log[j]) /\ log[j].ok /\ log[j].ids # {}
       /\ log[k].chunk # log[i].chunk /\ log[k].depth = 0
       /\ log[k].ok /\ ~Saturated(log[k])

\* ---- C17 ------------------------------------------------------------------
\* C17: a step sends at most one query; the entries of the log are in the order
\* of the chunks, and the chunks in the order of time; and of the queries sent
\* for a window after it was split, each one inside the first half (up to the
\* midpoint) comes before each one inside the second half (after the midpoint).
C17_SequentialDepthFirst ==
  [][ /\ Len(log') >= Len(log) =>
           Cardinality({ i \in (Len(log) + 1) .. Len(log') : log'[i].kind = "query" }) <= 1
      /\ \A i, j \in 1 .. Len(log') :
           i < j =>
             /\ log'[i].chunk <= log'[j].chunk
             /\ (log'[i].kind = "chunk" /\ log'[j].kind = "chunk") =>
                  log'[i].end <= log'[j].start
      /\ \A i \in 1 .. Len(log') :
           (log'[i].kind = "split") =>
             LET mid == log'[i].start + ((log'[i].end - log'[i].start) \div 2)
                 sub == { j \in (i + 1) .. Len(log') :
                            /\ log'[j].kind = "query" /\ log'[j].chunk = log'[i].chunk
                            /\ log'[i].start <= log'[j].start
                            /\ log'[j].end <= log'[i].end }
             IN \A j, k \in sub :
                  (log'[j].end <= mid /\ log'[k].start > mid) => j < k ]_vars

\* a finished run of several chunks in which the first half of a split chunk
\* was split again before the second half was fetched
C17_Witness ==
  /\ pc = "done" /\ chunkCount > 1
  /\ \E i \in Queries :
       /\ SplitAfter(i) /\ log[i].depth = 0
       /\ \E j \in FirstHalf(i), k \in SecondHalf(i) :
            /\ SplitAfter(j) /\ FirstHalf(j) # {} /\ SecondHalf(j) # {}
            /\ \A n \in FirstHalf(j) \cup SecondHalf(j) : n < k

\* ---- C18 ------------------------------------------------------------------
\* C18 (as claimed): the dates queried for each half of a split window lie
\* within the dates queried for the window and span fewer dates, so neither
\* half sends the query of its parent again.
C18_DateRangesShrink ==
  \A i \in Queries :
    SplitAfter(i) =>
      \A j \in FirstHalf(i) \cup SecondHalf(i) :
        /\ Format(log[i].start) <= Format(log[j].start)
        /\ Format(log[j].end) <= Format(log[i].end)
        /\ Format(log[j].end) - Format(log[j].start)
             < Format(log[i].end) - Format(log[i].start)

\* ---- C19 ------------------------------------------------------------------
\* C19: the result and the seen set only grow, by appending; a step in which a
\* chunk fails, by an error of the backend or at the depth limit, leaves both
\* as they were, and the failed fetch has brought no record.
C19_FailureKeepsPartial ==
  [][ /\ Len(allPRs) <= Len(allPRs')
      /\ SubSeq(allPRs', 1, Len(allPRs)) = allPRs
      /\ seenPRs \subseteq seenPRs'
      /\ (Len(log') > Len(log) /\ log'[Len(log')].kind = "warnErr") =>
           (allPRs' = allPRs /\ seenPRs' = seenPRs)
      /\ \A i \in 1 .. Len(log') :
           (log'[i].kind = "query" /\ ~log'[i].ok) => log'[i].ids = {} ]_vars

\* a finished run whose first chunk failed in its second half after a window
\* of its first half had been admitted, the records of that window kept
C19_Witness ==
  /\ pc = "done"
  /\ \E w \in Warnings, j, k \in Queries :
       /\ log[w].chunk = 1 /\ log[j].chunk = 1 /\ log[k].chunk = 1
       /\ j < k /\ k = w - 1 /\ ~log[k].ok
       /\ log[j].depth > MaxDepth - 1 /\ Admitting(log[j]) /\ log[j].ids # {}
       /\ log[j].ids \subseteq Urls(allPRs)
       /\ \A t \in log[j].ids : MkPR(t).URL \in seenPRs

\* ---- C20 ------------------------------------------------------------------
\* the rows of a response that have exactly 4 fields, as PRs, in their order
WellFormed(rows) ==
  LET keep == SelectSeq(rows, LAMBDA f : Len(f) = 4)
  IN [i \in 1 .. Len(keep) |-> [Number |-> keep[i][1], Title |-> keep[i][2],
                                MergedAt |-> keep[i][3], URL |-> keep[i][4]]]

C21_SeenSetConsistent ==
  [][ /\ seenPRs' = { allPRs'[i].URL : i \in 1 .. Len(allPRs') }
      /\ Len(allPRs') = Cardinality(seenPRs')
      /\ Len(allPRs) <= Len(allPRs')
      /\ \A i \in 1 .. Len(allPRs) : allPRs'[i] = allPRs[i] ]_vars

\* a run under way, with records admitted from two fetches and a record that
\* a later fetch returned again
C21_Witness ==
  /\ pc = "loop" /\ stack # <<>>
  /\ Len(allPRs) >= Cap
  /\ \E i, j \in Queries :
       /\ i < j /\ Admitting(log[i]) /\ Admitting(log[j])
       /\ log[i].ids \cap log[j].ids # {}
       /\ log[j].ids \ log[i].ids # {}

\* ---- C22 ------------------------------------------------------------------
ChunkQueries(c) == { i \in Queries : log[i].chunk = c }

\* C22: with the real lengths of the months, of the day and of the limit, a
\* monthly window spans at most 31 days, no call of fetchPRsRecursive is made
\* at a depth above 5, a monthly window fails only after a fetch that failed
\* (never by the depth limit), and at most 63 fetches are made for one monthly
\* window.
C22_DepthLimitUnreachable ==
  /\ \A i \in Chunks : log[i].end - log[i].start <= 31 * Day
  /\ \A k \in 1 .. Len(stack) : stack[k].depth <= 5
  /\ \A i \in 1 .. Len(log) : log[i].depth <= 5
  /\ \A i \in Warnings :
       i > 1 /\ log[i - 1].kind = "query" /\ ~log[i - 1].ok
  /\ \A c \in 1 .. chunkCount : Cardinality(ChunkQueries(c)) <= 63

\* a window of 31 days bisected down to depth 5 with 63 fetches, none failing
C22_Witness ==
  /\ pc = "done"
  /\ NoQueryFailed
  /\ \E i \in Chunks :
       /\ log[i].end - log[i].start = 31 * Day
       /\ Cardinality(ChunkQueries(log[i].chunk)) = 63
       /\ \E j \in ChunkQueries(log[i].chunk) : log[j].depth = 5

\* ---- C23 ------------------------------------------------------------------
\* the monthly window an event belongs to
ChunkOf(i) == CHOOSE c \in Chunks : log[c].chunk = log[i].chunk

\* query j was made while the first half of the window bisected at i was resolved
InFirstHalf(i, j) ==
  /\ i < j /\ log[j].chunk = log[i].chunk /\ SplitAfter(i)
  /\ log[j].depth > log[i].depth
  /\ log[i].start <= log[j].start
  /\ log[j].end <= log[i].start + ((log[i].end - log[i].start) \div 2)

\* C23: when a fetch fails, the error is the next thing reported, as the warning
\* of the monthly window the fetch was made for; nothing more is fetched for
\* that monthly window, in particular not the second half of any window in
\* whose first half the fetch was made; and the run goes on with the monthly
\* window that starts where the failed one ended, if there is one.
C23_ErrorShortCircuit ==
  \A j \in Queries :
    ~log[j].ok =>
      /\ j + 1 <= Len(log)
      /\ log[j + 1].kind = "warnErr"
      /\ log[j + 1].chunk = log[j].chunk
      /\ log[j + 1].start = log[ChunkOf(j)].start
      /\ log[j + 1].end = log[ChunkOf(j)].end
      /\ \A k \in (j + 2) .. Len(log) :
           log[k].kind = "total" \/ log[k].chunk > log[j].chunk
      /\ \A i \in Queries : InFirstHalf(i, j) => SecondHalf(i) = {}
      /\ j + 1 = Len(log) => stack = <<>> /\ currentStart = log[ChunkOf(j)].end
      /\ (pc = "done" /\ log[ChunkOf(j)].end < now) =>
           \E c \in Chunks : /\ log[c].chunk = log[j].chunk + 1
                             /\ log[c].start = log[ChunkOf(j)].end

\* a fetch failed in the first half of a bisected window, and a later monthly
\* window was fetched
C23_Witness ==
  /\ pc = "done"
  /\ \E i, j \in Queries :
       /\ InFirstHalf(i, j) /\ ~log[j].ok
       /\ \E k \in Queries : k > j /\ log[k].chunk > log[j].chunk /\ log[k].ok

\* ---- C24 ------------------------------------------------------------------
\* the calendar dates a window is queried with: "merged:A..B" of its bounds
QueriedDates(w) == Format(w.start) .. Format(w.end)

\* C24: when a window is bisected, every calendar date of the range it was
\* queried with is in the range the first or the second of the two calls made
\* for its halves is queried with; and once the loop is left, the calendar date
\* of every instant from sinceDate up to now is in the range of a monthly window
\* (there is none when sinceDate is not before now).
C24_NoDateLost ==
  [][ /\ (Len(log') > Len(log) /\ log'[Len(log')].kind = "split") =>
           /\ Len(stack') >= 2
           /\ QueriedDates(Head(stack))
                \subseteq (QueriedDates(stack'[1]) \cup QueriedDates(stack'[2]))
      /\ pc' = "done" =>
           \A t \in sinceDate .. (now - 1) :
             \E i \in Chunks : Format(t) \in QueriedDates(log[i]) ]_vars

\* a finished run of two monthly windows, one of them bisected at a midpoint
\* inside a day, so that the date of the midpoint is queried by both halves
C24_Witness ==
  /\ pc = "done"
  /\ chunkCount >= 2
  /\ \E i \in Queries :
       LET midpoint == log[i].start + ((log[i].end - log[i].start) \div 2)
       IN /\ SplitAfter(i)
          /\ FirstHalf(i) # {} /\ SecondHalf(i) # {}
          /\ Format(midpoint) = Format(midpoint + OneSecond)

\* ---- C25 ------------------------------------------------------------------
\* the URLs of a list of PRs, in its order
URLs(prs) == [i \in 1 .. Len(prs) |-> prs[i].URL]

\* C25: when the list saved is not empty and each of its URLs is not empty and
\* neither begins nor ends with white space, ParsePRURLsFromCSV reads from the
\* file saveToCSV wrote, without an error, the URLs of the list, one for each
\* PR and in the order of the list; the header of the file gives it the column
\* of the URL, which it takes, and no columns to build a URL from.
C25_CsvRoundTrip ==
  (/\ pc = "read"
   /\ allPRs # <<>>
   /\ \A i \in 1 .. Len(allPRs) :
        allPRs[i].URL # <<>> /\ TrimSpace(allPRs[i].URL) = allPRs[i].URL) =>
    /\ ~disk.read.err
    /\ disk.read.urls = URLs(allPRs)
    /\ \E r \in {ReadAll(disk.file, detectDelimiter(disk.file))} :
         /\ ~r.err
         /\ Len(r.records) = Len(allPRs) + 1
         /\ detectCSVFormat(r.records[1]).URLColumn = 3
         /\ detectCSVFormat(r.records[1]).OwnerColumn = -1
         /\ detectCSVFormat(r.records[1]).RepoColumn = -1
         /\ \A i \in 1 .. Len(allPRs) : r.records[i + 1][4] = allPRs[i].URL

\* two PRs read back, the URL of the first with a comma and that of the second
\* with a quote, both written between quotes
C25_Witness ==
  /\ pc = "read"
  /\ Len(allPRs) = 2
  /\ allPRs[1].URL = <<0, Comma>> /\ allPRs[2].URL = <<Quote, 0>>
  /\ allPRs[1].Title = <<Quote, Return>>
  /\ disk.read = [err |-> FALSE, urls |-> <<<<0, Comma>>, <<Quote, 0>>>>]
====
